---- MODULE Spec2Model ----
(***************************************************************************)
(* Model of the subtitle matcher's Gemini client (src/gemini_client.py):   *)
(* the response normalizer GeminiClient._clean_srt_response and the        *)
(* orchestrator GeminiClient.align_subtitles.                              *)
(*                                                                         *)
(* A text is a sequence of characters.  A character is a one-element       *)
(* string, except for the four characters that  have no printable form:    *)
(* "BOM" is U+FEFF, "CR" is \r, "LF" is \n and "BT" is the backtick.       *)
(***************************************************************************)
EXTENDS Integers, Sequences, FiniteSets, TLC

BOM == "BOM"
CR == "CR"
LF == "LF"
SP == " "
\* The backtick character.
BT == "BT"

\* The characters str.strip() removes and the regex class \s matches.
Whitespace == {SP, CR, LF}

\* The regex class \d.
Digits == {"0", "1", "2", "3"}

\* The regex class [a-z] of the fence pattern.
LowerLetters == {"a", "g", "i", "m", "n", "p", "r", "s", "t"}

\* The triple-backtick marker of a markdown code fence.
FENCE == <<BT, BT, BT>>

\* re.IGNORECASE: the lower-case form of a letter of the model's alphabet.
Lower(c) ==
    CASE c = "M" -> "m" [] c = "A" -> "a" [] c = "P" -> "p" [] c = "I" -> "i"
      [] c = "N" -> "n" [] c = "G" -> "g" [] c = "S" -> "s" [] c = "R" -> "r"
      [] c = "T" -> "t" [] OTHER -> c

----------------------------------------------------------------------------
(* Python's string operations, over sequences of characters.               *)

\* s[i:].startswith(pat), with i counted from 1.
StartsWithAt(s, i, pat) ==
    /\ i <= Len(s)
    /\ s[i] = pat[1]
    /\ i + Len(pat) - 1 <= Len(s)
    /\ \A k \in 2..Len(pat) : s[i + k - 1] = pat[k]

\* pat in s
Contains(s, pat) == \E i \in 1..Len(s) : StartsWithAt(s, i, pat)

\* The smallest element of a non-empty set of integers.
Least(S) == CHOOSE k \in S : \A m \in S : k <= m

\* Every index where pat occurs in s.
Occurrences(s, pat) == {k \in 1..Len(s) : StartsWithAt(s, k, pat)}

RECURSIVE ReplaceFrom(_, _, _, _, _)
\* The replacement from index i on; at holds the occurrences not yet passed.
ReplaceFrom(s, i, at, old, new) ==
    IF at = {} THEN SubSeq(s, i, Len(s))
    ELSE LET m == Least(at)
             next == m + Len(old)
         IN  SubSeq(s, i, m - 1) \o new
             \o ReplaceFrom(s, next, {k \in at : k >= next}, old, new)

\* s.replace(old, new): left to right, non-overlapping.
Replace(s, old, new) == ReplaceFrom(s, 1, Occurrences(s, old), old, new)

RECURSIVE LStripChars(_, _)
\* s.lstrip(chars)
LStripChars(s, chars) ==
    IF s # <<>> /\ Head(s) \in chars THEN LStripChars(Tail(s), chars) ELSE s

RECURSIVE RStripChars(_, _)
RStripChars(s, chars) ==
    IF s # <<>> /\ s[Len(s)] \in chars
    THEN RStripChars(SubSeq(s, 1, Len(s) - 1), chars)
    ELSE s

\* s.strip()
Strip(s) == RStripChars(LStripChars(s, Whitespace), Whitespace)

RECURSIVE SplitFrom(_, _, _)
\* The lines from index i on; at holds the newlines not yet passed.
SplitFrom(s, i, at) ==
    IF at = {} THEN <<SubSeq(s, i, Len(s))>>
    ELSE LET m == Least(at)
         IN  <<SubSeq(s, i, m - 1)>> \o SplitFrom(s, m + 1, at \ {m})

\* s.split("\n")
Split(s) == SplitFrom(s, 1, Occurrences(s, <<LF>>))

RECURSIVE Join(_)
\* "\n".join(lines)
Join(lines) ==
    IF lines = <<>> THEN <<>>
    ELSE IF Len(lines) = 1 THEN lines[1]
         ELSE lines[1] \o <<LF>> \o Join(Tail(lines))

----------------------------------------------------------------------------
(* The regular expressions of _clean_srt_response.                         *)

RECURSIVE SkipWhile(_, _, _)
\* The first index at or after i whose character is not in chars.
SkipWhile(s, i, chars) ==
    IF i <= Len(s) /\ s[i] \in chars THEN SkipWhile(s, i + 1, chars) ELSE i

\* The closing LF FENCE positions available to an opening fence whose
\* newline is at j.
Closings(s, j) == {k \in (j + 1)..Len(s) : StartsWithAt(s, k, <<LF>> \o FENCE)}

\* A match of the fence pattern FENCE [a-z]* LF (.*?) LF FENCE (DOTALL)
\* starting at i: whether there is one, the group's first and last index, and the index after the match.
FenceMatchAt(s, i) ==
    IF ~StartsWithAt(s, i, FENCE) THEN [ok |-> FALSE, from |-> 0, to |-> 0, next |-> 0]
    ELSE LET j == SkipWhile(s, i + 3, LowerLetters)
         IN  IF j <= Len(s) /\ s[j] = LF /\ Closings(s, j) # {}
             THEN LET k == Least(Closings(s, j))
                  IN  [ok |-> TRUE, from |-> j + 1, to |-> k - 1, next |-> k + 4]
             ELSE [ok |-> FALSE, from |-> 0, to |-> 0, next |-> 0]

RECURSIVE FenceSubFrom(_, _, _)
\* The substitution from index i on; at holds the indices not yet passed
\* where the pattern matches.  The text up to the leftmost match is kept,
\* the match is replaced by its group, and the search goes on after it.
FenceSubFrom(s, i, at) ==
    IF at = {} THEN SubSeq(s, i, Len(s))
    ELSE LET k == Least(at)
             m == FenceMatchAt(s, k)
         IN  SubSeq(s, i, k - 1) \o SubSeq(s, m.from, m.to)
             \o FenceSubFrom(s, m.next, {j \in at : j >= m.next})

\* re.sub(fence pattern, r'\1', s, flags=re.DOTALL)
FenceSub(s) == FenceSubFrom(s, 1, {k \in 1..Len(s) : FenceMatchAt(s, k).ok})

\* IsMappingHeader with the pattern ^#?\s*mapping\s*$
IsMappingHeaderOptionalHash(line) ==
    LET j == SkipWhile(line, IF Len(line) >= 1 /\ line[1] = "#" THEN 2 ELSE 1, Whitespace)
        word == <<"m", "a", "p", "p", "i", "n", "g">>
    IN  /\ j + 6 <= Len(line)
        /\ \A k \in 1..7 : Lower(line[j + k - 1]) = word[k]
        /\ SkipWhile(line, j + 7, Whitespace) = Len(line) + 1

\* re.match(r'^#\s*mapping\s*$', line, re.IGNORECASE)
IsMappingHeader(line) ==
    /\ Len(line) >= 1
    /\ line[1] = "#"
    /\ LET j == SkipWhile(line, 2, Whitespace)
           word == <<"m", "a", "p", "p", "i", "n", "g">>
       IN  /\ j + 6 <= Len(line)
           /\ \A k \in 1..7 : Lower(line[j + k - 1]) = word[k]
           /\ SkipWhile(line, j + 7, Whitespace) = Len(line) + 1

\* re.match(r'^\d+$', line)
IsNumeric(line) == Len(line) >= 1 /\ \A k \in 1..Len(line) : line[k] \in Digits

\* \d{2}:\d{2}:\d{2},\d{3} at index i
IsTimeAt(s, i) ==
    /\ i + 11 <= Len(s)
    /\ \A k \in {0, 1, 3, 4, 6, 7, 9, 10, 11} : s[i + k] \in Digits
    /\ s[i + 2] = ":" /\ s[i + 5] = ":" /\ s[i + 8] = ","

\* re.match(r'^\d{2}:\d{2}:\d{2},\d{3}\s+-->\s+\d{2}:\d{2}:\d{2},\d{3}$', line)
IsTimestamp(line) ==
    /\ IsTimeAt(line, 1)
    /\ LET a == SkipWhile(line, 13, Whitespace)
       IN  /\ a > 13
           /\ StartsWithAt(line, a, <<"-", "-", ">">>)
           /\ LET b == SkipWhile(line, a + 3, Whitespace)
              IN  /\ b > a + 3
                  /\ IsTimeAt(line, b)
                  /\ b + 11 = Len(line)

----------------------------------------------------------------------------
(* GeminiClient._clean_srt_response                                        *)

\* Step 1: response_text.lstrip(BOM)
RemoveBom(s) == LStripChars(s, {BOM})

\* Step 2: cleaned.replace(CR LF, LF)
NormalizeLineEndings(s) == Replace(s, <<CR, LF>>, <<LF>>)

\* RemoveCodeBlocks without the removal of the markers left unpaired.
UnwrapPairedOnly(s) == FenceSub(s)

\* RemoveCodeBlocks without the unwrapping of the paired blocks.
RemoveMarkersOnly(s) == Replace(s, FENCE, <<>>)

\* Step 4: unwrap the paired fenced blocks, then drop the fence markers left.
RemoveCodeBlocks(s) == Replace(FenceSub(s), FENCE, <<>>)

\* Steps 1 to 4: the text whose lines step 5 scans.
Precleaned(response_text) ==
    RemoveCodeBlocks(Strip(NormalizeLineEndings(RemoveBom(response_text))))

\* The guard of the subtitle-start search (the elif of the scan loop).
SrtSearchEnabled(mapping_start, srt_start) ==
    mapping_start >= 0 /\ srt_start = -1

\* IsSrtStart without the look at the next line.
IsSrtStartDigitOnly(lines, i) == IsNumeric(Strip(lines[i + 1]))

\* Whether line i (counted from 0) is purely numeric and line i + 1 is a
\* strict timecode range.
IsSrtStart(lines, i) ==
    /\ IsNumeric(Strip(lines[i + 1]))
    /\ i + 1 < Len(lines)
    /\ IsTimestamp(Strip(lines[i + 2]))

RECURSIVE ScanFrom(_, _, _)
\* The scan loop from line i (counted from 0) on: mapping_start and
\* srt_start as the loop leaves them, -1 for "not found".
ScanFrom(lines, i, mapping_start) ==
    IF i >= Len(lines) THEN [mapping_start |-> mapping_start, srt_start |-> -1]
    ELSE IF mapping_start = -1 /\ IsMappingHeader(Strip(lines[i + 1]))
         THEN ScanFrom(lines, i + 1, i)
         ELSE IF SrtSearchEnabled(mapping_start, -1) /\ IsSrtStart(lines, i)
              THEN [mapping_start |-> mapping_start, srt_start |-> i]
              ELSE ScanFrom(lines, i + 1, mapping_start)

DetectSections(lines) == ScanFrom(lines, 0, -1)

\* SectionFrom with the slice starting one line late.
SectionFromNext(lines, start) == Join(SubSeq(lines, start + 2, Len(lines)))

\* lines[start:], joined
SectionFrom(lines, start) == Join(SubSeq(lines, start + 1, Len(lines)))

\* The three branches after the scan loop.
SelectSection(cleaned, lines, found) ==
    IF found.mapping_start >= 0 /\ found.srt_start >= 0
    THEN SectionFrom(lines, found.srt_start)
    ELSE IF found.srt_start >= 0
         THEN SectionFrom(lines, found.srt_start)
         ELSE cleaned

\* The messages the normalizer hands to _log: the two detections of the scan
\* loop, then the message of the branch taken.
CleanLog(found) ==
    (IF found.mapping_start >= 0 THEN <<"mapping detected">> ELSE <<>>)
    \o (IF found.srt_start >= 0 THEN <<"srt start detected">> ELSE <<>>)
    \o (IF found.mapping_start >= 0 /\ found.srt_start >= 0
        THEN <<"mapping table">>
        ELSE IF found.srt_start >= 0
             THEN <<"no mapping, srt used">>
             ELSE <<"no srt start, full response used">>)

\* CleanSrtResponse without the final trim.
CleanSrtResponseNoTrim(response_text) ==
    LET cleaned == Precleaned(response_text)
        lines == Split(cleaned)
        found == DetectSections(lines)
    IN  [text |-> SelectSection(cleaned, lines, found), log |-> CleanLog(found)]

\* _clean_srt_response: the text returned and the messages logged.
CleanSrtResponse(response_text) ==
    LET cleaned == Precleaned(response_text)
        lines == Split(cleaned)
        found == DetectSections(lines)
    IN  [text |-> Strip(SelectSection(cleaned, lines, found)),
         log |-> CleanLog(found)]

----------------------------------------------------------------------------
(* The response texts the model feeds the normalizer: blocks of lines,     *)
(* joined by a line ending, between a lead and a trail.  A text has up to  *)
(* MaxShortBlocks blocks of any kind, or up to MaxBlocks of the core kinds.*)

MaxShortBlocks == 2
MaxBlocks == 4

HEADER == <<"#", " ", "M", "A", "P", "P", "I", "N", "G">>
HEADER_LOOSE == <<" ", "#", "m", "a", "p", "p", "i", "n", "g">>
WORD == <<"m", "a", "p", "p", "i", "n", "g">>
WORD_UPPER == <<"M", "A", "P", "P", "I", "N", "G">>
NUM == <<"1">>
NUM2 == <<"2">>
TIME ==
    <<"0", "0", ":", "0", "0", ":", "0", "1", ",", "0", "0", "0", " ", "-",
      "-", ">", " ", "0", "0", ":", "0", "0", ":", "0", "2", ",", "0", "0",
      "0">>
TIME_BAD ==
    <<"0", "0", ":", "0", "0", ":", "0", "1", ",", "0", "0", "0", " ", "-",
      ">", " ", "0", "0", ":", "0", "0", ":", "0", "2", ",", "0", "0", "0">>
TEXT == <<"H", "i">>
TAG == <<"s", "r", "t">>
TAG_UPPER == <<"S", "R", "T">>

\* One subtitle entry: number, timecode range, text.
ENTRY == <<NUM, TIME, TEXT>>

\* Two subtitle entries with the blank line between them.
TWO_ENTRIES == <<NUM, TIME, TEXT, <<>>, NUM2, TIME, TEXT>>

Blocks ==
    { <<TEXT>>, <<<<>>>>, ENTRY, TWO_ENTRIES, <<HEADER>>, <<HEADER_LOOSE>>,
      <<WORD>>, <<WORD_UPPER>>, <<NUM2>>, <<NUM, TIME_BAD>> }

\* What surrounds and separates the lines: the lead, the line ending, the trail.
Decoration(lead, eol, trail) == [lead |-> lead, eol |-> eol, trail |-> trail]

Decorations ==
    { Decoration(<<>>, <<LF>>, <<>>),
      Decoration(<<BOM>>, <<CR, LF>>, <<CR, LF>>),
      Decoration(<<BOM, BOM>>, <<LF>>, <<>>),
      Decoration(<<SP, BOM>>, <<LF>>, <<>>),
      Decoration(<<>>, <<CR, CR, LF>>, <<>>),
      Decoration(FENCE \o <<LF>>, <<LF>>, <<LF>> \o FENCE),
      Decoration(FENCE \o TAG \o <<LF>>, <<LF>>, <<LF>> \o FENCE),
      Decoration(FENCE \o TAG_UPPER \o <<LF>>, <<LF>>, <<LF>> \o FENCE),
      Decoration(TEXT \o <<LF>> \o FENCE \o TAG \o <<LF>>, <<LF>>, <<LF>> \o FENCE),
      Decoration(FENCE \o <<LF>>, <<LF>>, <<>>),
      Decoration(<<SP, SP, SP, SP>>, <<LF>>, <<LF, LF, LF, LF>>) }

RECURSIVE JoinWith(_, _)
JoinWith(lines, eol) ==
    IF lines = <<>> THEN <<>>
    ELSE IF Len(lines) = 1 THEN lines[1]
         ELSE lines[1] \o eol \o JoinWith(Tail(lines), eol)

RECURSIVE Flatten(_)
Flatten(blocks) ==
    IF blocks = <<>> THEN <<>> ELSE Head(blocks) \o Flatten(Tail(blocks))

\* The blocks of the longer texts: text, entry, header, lone number.
CoreBlocks == { <<TEXT>>, ENTRY, <<HEADER>>, <<NUM2>> }

BlockSeqs ==
    UNION { [1..n -> Blocks] : n \in 1..MaxShortBlocks }
    \cup UNION { [1..n -> CoreBlocks] : n \in 1..MaxBlocks }

ResponseTexts ==
    { d.lead \o JoinWith(Flatten(bs), d.eol) \o d.trail :
        d \in Decorations, bs \in BlockSeqs }

----------------------------------------------------------------------------
(* The transport's response object, as align_subtitles reads it.  An       *)
(* attribute is absent (hasattr is false), raises when read, is None, or   *)
(* holds a text.                                                           *)

Attr(kind, val) == [kind |-> kind, val |-> val]

Absent == Attr("absent", <<>>)
Raises == Attr("raises", <<>>)
IsNone == Attr("none", <<>>)
Str(t) == Attr("str", t)

\* The texts an accessor path may hold: empty, under the length floor, and
\* a subtitle entry; each path has texts of its own.
PathTexts(n) == { <<>>, TEXT \o n, JoinWith(<<n, TIME, TEXT>>, <<LF>>) }

\* response.text
TextAttrs == {Absent, Raises, IsNone} \cup { Str(t) : t \in PathTexts(<<"1">>) }

\* response.candidates, by how far the nested path candidates[0].content
\* .parts[0].text leads: no attribute, a raising one, None, an empty list,
\* a candidate without content, a content without parts, a part whose text
\* is None, or a part with a text.
CandidateAttrs ==
    { Absent, Raises, IsNone, Attr("empty", <<>>), Attr("no_content", <<>>),
      Attr("no_parts", <<>>), Attr("no_text", <<>>) }
    \cup { Str(t) : t \in PathTexts(<<"2">>) }

\* str(response.result)
ResultAttrs == {Absent, Raises} \cup { Str(t) : t \in PathTexts(<<"3">>) }

\* str(response)
ReprAttrs == {Raises} \cup { Str(t) : t \in PathTexts(<<"0">>) }

Response(text, candidates, result, repr) ==
    [text |-> text, candidates |-> candidates, result |-> result, repr |-> repr]

\* No response: before the call, and when the transport call raises.
NoResponse == Response(Absent, Absent, Absent, Raises)

\* The responses the transport may return: a text under the direct
\* accessor, and every combination of what the accessor paths hold.
Responses ==
    { Response(Str(t), Absent, Absent, Str(TEXT)) : t \in ResponseTexts }
    \cup { Response(a, c, r, p) :
             a \in TextAttrs, c \in CandidateAttrs, r \in ResultAttrs, p \in ReprAttrs }

----------------------------------------------------------------------------
(* GeminiClient.align_subtitles: text extraction and validation.           *)

\* An optional text is <<>> (None) or <<text>>; "not result_text" is true of
\* None and of the empty text.
Falsy(opt) == opt = <<>> \/ opt[1] = <<>>

\* Method 1: the direct .text property.
Method1(response, result_text) ==
    IF response.text.kind = "str" THEN <<response.text.val>> ELSE result_text

\* Method 2: candidates[0].content.parts[0].text, taken when it is truthy.
Method2(response, result_text) ==
    IF response.candidates.kind = "str" /\ response.candidates.val # <<>>
    THEN <<response.candidates.val>>
    ELSE result_text

\* Method 3: str(response.result) when there is a result attribute, else
\* str(response).
Method3(response, result_text) ==
    IF response.result.kind = "str" THEN <<response.result.val>>
    ELSE IF response.result.kind = "raises" THEN result_text
         ELSE IF response.repr.kind = "str" THEN <<response.repr.val>>
              ELSE result_text

\* Consults with the test "result_text is None".
ConsultsWhenNone(result_text) == result_text = <<>>

\* Whether a later method is consulted, given what the earlier ones left.
Consults(result_text) == Falsy(result_text)

\* The extraction: result_text after the three methods, and the methods
\* consulted, in order.
ExtractText(response) ==
    LET r1 == Method1(response, <<>>)
        r2 == IF Consults(r1) THEN Method2(response, r1) ELSE r1
        r3 == IF Consults(r2) THEN Method3(response, r2) ELSE r2
    IN  [result_text |-> r3,
         accessed |-> <<"text">>
                      \o (IF Consults(r1) THEN <<"candidates">> ELSE <<>>)
                      \o (IF Consults(r2) THEN <<"fallback">> ELSE <<>>)]

\* The length floor of the basic validation.
MinLength == 10

\* The basic validation: the error it raises, "" when it raises none.
Validate(result_text) ==
    IF Falsy(result_text) THEN "empty response"
    ELSE IF Len(result_text[1]) < MinLength THEN "suspiciously short response"
         ELSE ""

\* The exception with the cause alone, not wrapped.
WrapErrorBare(cause) == <<cause>>

\* The exception align_subtitles raises for a failure inside its try block:
\* the message is the prefix followed by the text of the cause.
WrapError(cause) == <<"Gemini API error: ", cause>>

----------------------------------------------------------------------------
(* prompt_template.get_alignment_prompt.  The fixed text of the template   *)
(* is kept as its paragraphs; the fences and line ends that surround the   *)
(* two placeholders are kept as characters.                                *)

PromptHead ==
    <<"You are a subtitle alignment expert. [...]", LF, LF,
      "**INSTRUCTIONS:**", LF, LF,
      "1. **Match Text to Timestamps** [...] 6. **Output Format** [...]", LF, LF,
      "**ORIGINAL SRT FILE:**", LF>> \o FENCE \o <<LF>>

PromptMiddle ==
    <<LF>> \o FENCE \o <<LF, LF, "**CORRECTED TRANSCRIPT:**", LF>> \o FENCE \o <<LF>>

PromptTail ==
    <<LF>> \o FENCE \o
    <<LF, LF, "**OUTPUT REQUIREMENTS:**", LF, "- Valid SRT format only [...]", LF, LF,
      "Generate the aligned SRT file now:">>

\* The template with the two placeholders exchanged.
GetAlignmentPromptSwapped(original_srt, corrected_transcript) ==
    PromptHead \o corrected_transcript \o PromptMiddle \o original_srt \o PromptTail

\* The f-string: the template with the two texts substituted as they are.
GetAlignmentPrompt(original_srt, corrected_transcript) ==
    PromptHead \o original_srt \o PromptMiddle \o corrected_transcript \o PromptTail

----------------------------------------------------------------------------
(* GeminiClient.__init__.  A credential is an optional text: <<>> for      *)
(* None (or an unset environment variable), else <<key>>.                  *)

\* The constructor: a truthy api_key is stored in the process environment,
\* the environment is then tested, and the SDK client is created.  It
\* gives the environment it leaves and how it ended.
GeminiClientInit(environ, api_key, sdk_ok) ==
    LET env == IF Falsy(api_key) THEN environ ELSE api_key
    IN  IF Falsy(env)
        THEN [environ |-> env, outcome |-> "ValueError"]
        ELSE [environ |-> env,
              outcome |-> IF sdk_ok THEN "ok" ELSE "ConnectionError"]

----------------------------------------------------------------------------
(* utils/file_ops.py.  A file is whether the path exists, the bytes it     *)
(* holds and, for each of the two open-and-read attempts, whether the      *)
(* system lets it through ("ok") or fails it ("OSError": permission, a     *)
(* directory, an I/O error).                                               *)

File(exists, bytes, io) == [exists |-> exists, bytes |-> bytes, io |-> io]

\* The bytes of a file: ASCII bytes, the two bytes of e-acute in UTF-8, and
\* a byte no UTF-8 text holds.
AsciiBytes == {"41", "0A", "0D", "20", "31", "2D", "3E"}

Bytes == AsciiBytes \cup {"C3", "A9", "FF"}

AsciiChar(b) ==
    CASE b = "41" -> "A"
      [] b = "0A" -> LF
      [] b = "0D" -> CR
      [] b = "20" -> SP
      [] b = "31" -> "1"
      [] b = "2D" -> "-"
      [] OTHER -> ">"

\* Whether the bytes from position i on are UTF-8.
RECURSIVE Utf8Valid(_, _)
Utf8Valid(bytes, i) ==
    IF i > Len(bytes) THEN TRUE
    ELSE IF bytes[i] \in AsciiBytes THEN Utf8Valid(bytes, i + 1)
    ELSE IF bytes[i] = "C3" /\ i < Len(bytes) /\ bytes[i + 1] = "A9"
         THEN Utf8Valid(bytes, i + 2)
         ELSE FALSE

\* The characters of UTF-8 bytes from position i on.
RECURSIVE Utf8Chars(_, _)
Utf8Chars(bytes, i) ==
    IF i > Len(bytes) THEN <<>>
    ELSE IF bytes[i] = "C3" THEN <<"e-acute">> \o Utf8Chars(bytes, i + 2)
    ELSE <<AsciiChar(bytes[i])>> \o Utf8Chars(bytes, i + 1)

\* latin-1: every byte is one character.
Latin1Char(b) ==
    CASE b \in AsciiBytes -> AsciiChar(b)
      [] b = "C3" -> "A-tilde"
      [] b = "A9" -> "copyright"
      [] OTHER -> "y-diaeresis"

Latin1Chars(bytes) == [k \in 1..Len(bytes) |-> Latin1Char(bytes[k])]

\* Text mode: a CR LF and a lone CR are read as LF.
TranslateNewlines(text) == Replace(Replace(text, <<CR, LF>>, <<LF>>), <<CR>>, <<LF>>)

ReadResult(outcome, error, text, tried) ==
    [outcome |-> outcome, error |-> error, text |-> text, tried |-> tried]

\* read_srt_file: the error raised or the text returned, and the encodings
\* tried.  Only UnicodeDecodeError leads to the second attempt, and only
\* the second attempt's failures are wrapped.
ReadSrtFile(file) ==
    IF ~file.exists THEN ReadResult("raised", "FileNotFoundError", <<>>, <<>>)
    ELSE IF file.io[1] # "ok" THEN ReadResult("raised", file.io[1], <<>>, <<"utf-8">>)
    ELSE IF Utf8Valid(file.bytes, 1)
    THEN ReadResult("returned", "", TranslateNewlines(Utf8Chars(file.bytes, 1)),
                    <<"utf-8">>)
    ELSE IF file.io[2] # "ok"
    THEN ReadResult("raised", "Failed to read SRT file", <<>>, <<"utf-8", "latin-1">>)
    ELSE ReadResult("returned", "", TranslateNewlines(Latin1Chars(file.bytes)),
                    <<"utf-8", "latin-1">>)

\* int(line): an optional sign and digits, surrounding whitespace ignored.
ParsesAsInt(line) ==
    LET t == Strip(line)
        d == IF t # <<>> /\ t[1] \in {"+", "-"} THEN SubSeq(t, 2, Len(t)) ELSE t
    IN  IsNumeric(d)

\* The arrow of a timecode range.
ARROW == <<"-", "-", ">">>

\* validate_srt_format without the length floor.
ValidateSrtFormatNoFloor(content) ==
    LET lines == Split(Strip(content))
    IN  /\ Len(lines) >= 3
        /\ ParsesAsInt(lines[1])
        /\ Contains(lines[2], ARROW)

\* The length floor of validate_srt_format.
MinContentLength == 10

\* validate_srt_format.
ValidateSrtFormat(content) ==
    IF content = <<>> \/ Len(content) < MinContentLength THEN FALSE
    ELSE LET lines == Split(Strip(content))
         IN  /\ Len(lines) >= 3
             /\ ParsesAsInt(lines[1])
             /\ Contains(lines[2], ARROW)

----------------------------------------------------------------------------
(* SubtitleMatcherGUI: what the worker thread hands to the control thread. *)
(* A callback is what root.after(0, ...) is given; run is the run whose    *)
(* code scheduled it.  Numbers and paths inside messages are left out.     *)

Callback(kind, run, arg) == [kind |-> kind, run |-> run, arg |-> arg]

\* _log: append_log
LogCb(run, message) == Callback("append_log", run, message)

\* _update_status
StatusCb(run, message) == Callback("set_status", run, message)

InfoCb(run) == Callback("showinfo", run, <<"Subtitle matching completed!">>)

ErrorCb(run, error_msg) == Callback("showerror", run, error_msg)

ResetCb(run) == Callback("reset_ui", run, <<>>)

Logs(run, messages) == [k \in 1..Len(messages) |-> LogCb(run, <<messages[k]>>)]

\* A scheduler that runs the newest callback first.
AfterNewestFirst(queue, callback) == <<callback>> \o queue

\* root.after(0, callback): timers that are due run in the order they were
\* scheduled.
After(queue, callback) == Append(queue, callback)

\* _run_matching: the three lines logged before the worker starts.
StartingBlock(run) ==
    Logs(run, <<"====", "Starting subtitle matching process...", "====">>)

\* _process_matching up to read_srt_file.
ReadingBlock(run) ==
    <<StatusCb(run, "Reading original SRT file...")>>
    \o Logs(run, <<"Reading input SRT file...", "Input: <path>">>)

LoadedBlock(run) == Logs(run, <<"Loaded <n> characters">>)

\* ... up to the construction of the client.
ConnectingBlock(run) ==
    Logs(run, <<"Corrected transcript: <n> characters">>)
    \o <<StatusCb(run, "Connecting to Gemini API...")>>
    \o Logs(run, <<"Initializing Gemini API client...">>)

\* align_subtitles up to the transport call.
RequestLog ==
    <<"Preparing alignment request...", "Original SRT: <n> chars",
      "Transcript: <n> chars", "Building prompt template...",
      "Prompt size: <n> chars", "Sending request to gemini-2.5-flash...",
      "Config: temp=0.2, top_p=0.9, max_tokens=8192", "Input: <n> chars",
      "Waiting for API response...">>

\* ... from the constructed client up to the transport call.
CallingBlock(run) ==
    Logs(run, <<"Gemini client initialized successfully",
                "Client initialized successfully">>)
    \o <<StatusCb(run, "Processing with Gemini 2.5 Flash...")>>
    \o Logs(run, <<"Calling Gemini 2.5 Flash API...", "Model: gemini-2.5-flash",
                   "This may take 10-30 seconds...">>)
    \o Logs(run, RequestLog)

\* What the three extraction methods log.
ExtractLog(response) ==
    LET r1 == Method1(response, <<>>)
        r2 == IF Consults(r1) THEN Method2(response, r1) ELSE r1
        c == response.candidates.kind
    IN  (CASE response.text.kind = "str" -> <<"Extracted via response.text">>
           [] response.text.kind = "raises" -> <<"Failed to access response.text">>
           [] OTHER -> <<>>)
        \o (IF ~Consults(r1) \/ c = "absent" THEN <<>>
            ELSE IF c = "raises" THEN <<"Could not extract from candidates">>
            ELSE <<"Candidates: <list>">>
                 \o (IF c \in {"none", "empty"} THEN <<>>
                     ELSE <<"First candidate type: <type>">>
                          \o (IF c = "no_content" THEN <<>>
                              ELSE <<"Content type: <type>">>
                                   \o (IF c = "no_parts" THEN <<>>
                                       ELSE <<"Parts count: <n>">>
                                            \o (IF c = "str" /\ response.candidates.val # <<>>
                                                THEN <<"Extracted via response.candidates[0].content.parts[0].text">>
                                                ELSE <<>>)))))
        \o (IF ~Consults(r2) THEN <<>>
            ELSE IF response.result.kind = "str" THEN <<"Extracted via response.result">>
            ELSE IF response.result.kind = "raises" THEN <<"Fallback extraction failed">>
            ELSE IF response.repr.kind = "str" THEN <<"Using str(response) as fallback">>
            ELSE <<"Fallback extraction failed">>)

\* What align_subtitles logs from the transport call on.
AlignLog(outcome, response) ==
    IF outcome = "fails" THEN <<"Gemini API error: <cause>">>
    ELSE LET e == Validate(ExtractText(response).result_text)
         IN  <<"API call successful!", "Time: <n>ms", "Model: gemini-2.5-flash",
               "Response type: <type>">>
             \o ExtractLog(response)
             \o (IF e = "empty response"
                 THEN <<"Could not extract text from response", "Response dir: <list>",
                        "Gemini API error: <cause>">>
                 ELSE IF e # "" THEN <<"Gemini API error: <cause>">>
                 ELSE <<"Response size: <n> chars (raw)", "Cleaning up response...",
                        "Raw size: <n> chars">>
                      \o CleanSrtResponse(ExtractText(response).result_text[1]).log
                      \o <<"After cleanup: <n> chars", "Reduction: <n> chars removed">>)

\* _process_matching from the returned text up to write_srt_file.
WritingBlock(run) ==
    Logs(run, <<"Received response: <n> characters">>)
    \o <<StatusCb(run, "Writing matched SRT file...")>>
    \o Logs(run, <<"Writing output file...", "Output: <path>">>)

\* ... and after it.
SuccessBlock(run) ==
    Logs(run, <<"File saved successfully">>)
    \o <<StatusCb(run, "Complete!")>>
    \o Logs(run, <<"====", "Subtitle matching completed successfully!", "====">>)
    \o <<InfoCb(run)>>

\* The except clause.
ExceptBlock(run, cause) ==
    <<LogCb(run, <<"ERROR: Error during processing: ">> \o cause)>>
    \o Logs(run, <<"====">>)
    \o <<StatusCb(run, "Error occurred")>>
    \o <<ErrorCb(run, <<"Error during processing: ">> \o cause)>>

\* A finally clause that schedules nothing.
FinallyBlockEmpty(run) == <<>>

\* The finally clause.
FinallyBlock(run) == <<ResetCb(run)>>

\* The state _run_matching leaves the button enabled in.
ProcessingStateNormal == "normal"

\* The state _run_matching puts the run button in.
ProcessingState == "disabled"

\* The worker goes on to the next stage whatever the stage did.
AfterStageIgnoringFailure(stage, failed) ==
    CASE stage = "read" -> "transcript"
      [] stage = "transcript" -> "construct"
      [] stage = "construct" -> "align"
      [] stage = "align" -> "write"
      [] OTHER -> "done"

\* Where the worker is after a stage of the try block: an exception leaves
\* the block.
AfterStage(stage, failed) ==
    IF failed THEN "done"
    ELSE CASE stage = "read" -> "transcript"
           [] stage = "transcript" -> "construct"
           [] stage = "construct" -> "align"
           [] stage = "align" -> "write"
           [] OTHER -> "done"

\* _validate_inputs: the error message, "" when the inputs are valid.
ValidateInputs(api_key_field, input_path, exists, transcript_field) ==
    IF Strip(api_key_field) = <<>> THEN "Please enter your Gemini API key."
    ELSE IF input_path = "" THEN "Please select an original SRT file."
    ELSE IF ~exists THEN "Input file not found"
    ELSE IF Strip(transcript_field) = <<>> THEN "Please paste your corrected transcript."
    ELSE ""

----------------------------------------------------------------------------
(* State.                                                                  *)

VARIABLES
    pc,              \* where the run is
    transport,       \* what generate_content does: "ok" or "fails"
    response,        \* the response object the transport returns
    accessed,        \* the accessor paths consulted, in order
    result_text,     \* align_subtitles: result_text; the normalizer's argument
    cleaned_result,  \* the text returned
    clean_log,       \* the messages the normalizer logged
    error,           \* the cause wrapped in the exception raised, "" for none
    second_pass,     \* the normalizer applied to its own result
    requests,        \* the generate_content calls made
    raised           \* the message of the exception raised, <<>> for none

\* get_alignment_prompt
VARIABLES
    original_srt,          \* the first argument
    corrected_transcript,  \* the second argument
    prompts                \* the prompts returned, one per call

\* GeminiClient.__init__
VARIABLES
    environ,         \* os.environ['GEMINI_API_KEY'], <<>> when unset
    configured,      \* the credential configured when the process started
    constructions,   \* the constructions made: api_key passed and outcome
    requested        \* the constructions whose client made a transport request

\* read_srt_file
VARIABLES
    file,            \* the file at the path
    read_result      \* <<>> before the call, then what the call gave

\* SubtitleMatcherGUI
VARIABLES
    run_button,      \* state of the run button: "normal" or "disabled"
    progress_bar,    \* "stopped" or "running"
    status_text,     \* the status line
    log_text,        \* the lines of the log display
    after_queue,     \* callbacks scheduled with root.after(0, ...), oldest first
    workers,         \* the worker threads started, by run
    gemini_client,   \* self.gemini_client: <<>> for None, else <<run>>
    output_file,     \* the file at the output path: <<>> while untouched
    shown,           \* the dialogs the runs showed and the resets made, in order
    emitted,         \* the log messages the current run passed to _log
    writer,          \* per attribute of the GUI object, the thread that last set it
    clicks,          \* the run requests made
    input_error      \* what _validate_inputs said of the last request, "" for valid

alignVars ==
    <<pc, transport, response, accessed, result_text, cleaned_result, clean_log,
      error, second_pass, requests, raised>>

promptVars == <<original_srt, corrected_transcript, prompts>>

clientVars == <<environ, configured, constructions, requested>>

readVars == <<file, read_result>>

guiVars ==
    <<run_button, progress_bar, status_text, log_text, after_queue, workers,
      gemini_client, output_file, shown, emitted, writer, clicks, input_error>>

vars == <<alignVars, promptVars, clientVars, readVars, guiVars>>

\* The attributes of the GUI object that change after construction.
GuiAttrs ==
    {"status_text", "log_text", "run_button", "progress_bar", "gemini_client"}

\* Each part of the program before it is used.
AlignIdle ==
    /\ pc = "unused"
    /\ transport = "ok"
    /\ response = NoResponse
    /\ accessed = <<>>
    /\ result_text = <<>>
    /\ cleaned_result = <<>>
    /\ clean_log = <<>>
    /\ error = ""
    /\ second_pass = <<>>
    /\ requests = 0
    /\ raised = <<>>

PromptIdle ==
    /\ original_srt = <<>>
    /\ corrected_transcript = <<>>
    /\ prompts = <<>>

ClientIdle ==
    /\ environ = <<>>
    /\ configured = <<>>
    /\ constructions = <<>>
    /\ requested = {}

ReadIdle ==
    /\ file = File(FALSE, <<>>, <<"ok", "ok">>)
    /\ read_result = <<>>

GuiIdle ==
    /\ run_button = "normal"
    /\ progress_bar = "stopped"
    /\ status_text = "Ready"
    /\ log_text = <<>>
    /\ after_queue = <<>>
    /\ workers = <<>>
    /\ gemini_client = <<>>
    /\ output_file = <<>>
    /\ shown = <<>>
    /\ emitted = <<>>
    /\ writer = [a \in GuiAttrs |-> "control"]
    /\ clicks = 0
    /\ input_error = ""

(* The normalizer on its own. *)

InitClean ==
    /\ pc = "clean"
    /\ result_text \in { <<t>> : t \in ResponseTexts }
    /\ transport = "ok"
    /\ response = NoResponse
    /\ accessed = <<>>
    /\ cleaned_result = <<>>
    /\ clean_log = <<>>
    /\ error = ""
    /\ second_pass = <<>>
    /\ requests = 0
    /\ raised = <<>>
    /\ PromptIdle /\ ClientIdle /\ ReadIdle /\ GuiIdle

CleanResponse ==
    /\ pc = "clean"
    /\ LET c == CleanSrtResponse(result_text[1])
       IN  /\ cleaned_result' = <<c.text>>
           /\ clean_log' = c.log
    /\ pc' = "cleaned"
    /\ UNCHANGED <<transport, response, accessed, result_text, error, second_pass,
                   requests, raised>>
    /\ UNCHANGED <<promptVars, clientVars, readVars, guiVars>>

CleanAgain ==
    /\ pc = "cleaned"
    /\ second_pass' = <<CleanSrtResponse(cleaned_result[1]).text>>
    /\ pc' = "recleaned"
    /\ UNCHANGED <<transport, response, accessed, result_text, cleaned_result,
                   clean_log, error, requests, raised>>
    /\ UNCHANGED <<promptVars, clientVars, readVars, guiVars>>

NextClean == CleanResponse \/ CleanAgain

SpecClean == InitClean /\ [][NextClean]_vars

(* One alignment request. *)

Init ==
    /\ pc = "idle"
    /\ \/ transport = "ok" /\ response \in Responses
       \/ transport = "fails" /\ response = NoResponse
    /\ accessed = <<>>
    /\ result_text = <<>>
    /\ cleaned_result = <<>>
    /\ clean_log = <<>>
    /\ error = ""
    /\ second_pass = <<>>
    /\ requests = 0
    /\ raised = <<>>
    /\ PromptIdle /\ ClientIdle /\ ReadIdle /\ GuiIdle

\* align_subtitles when generate_content raises.
AlignTransportFails ==
    /\ pc = "idle"
    /\ transport = "fails"
    /\ requests' = requests + 1
    /\ pc' = "raised"
    /\ error' = "transport"
    /\ raised' = WrapError("transport")
    /\ UNCHANGED <<transport, response, accessed, result_text, cleaned_result,
                   clean_log, second_pass>>
    /\ UNCHANGED <<promptVars, clientVars, readVars, guiVars>>

\* align_subtitles when generate_content returns the response.
AlignSubtitles ==
    /\ pc = "idle"
    /\ transport = "ok"
    /\ requests' = requests + 1
    /\ LET x == ExtractText(response)
           e == Validate(x.result_text)
       IN  /\ accessed' = x.accessed
           /\ result_text' = x.result_text
           /\ error' = e
           /\ raised' = IF e = "" THEN <<>> ELSE WrapError(e)
           /\ IF e = ""
              THEN LET c == CleanSrtResponse(x.result_text[1])
                   IN  /\ cleaned_result' = <<c.text>>
                       /\ clean_log' = c.log
                       /\ pc' = "returned"
              ELSE /\ cleaned_result' = <<>>
                   /\ clean_log' = <<>>
                   /\ pc' = "raised"
    /\ UNCHANGED <<transport, response, second_pass>>
    /\ UNCHANGED <<promptVars, clientVars, readVars, guiVars>>

Next == AlignTransportFails \/ AlignSubtitles

Spec == Init /\ [][Next]_vars

----------------------------------------------------------------------------
(* Two calls of get_alignment_prompt with one pair of texts.               *)

\* The texts passed: empty, with surrounding whitespace, a subtitle entry,
\* fences, a line of the template, a placeholder, a BOM.
PromptTexts ==
    { <<>>, TEXT, <<SP>> \o TEXT \o <<LF>>, JoinWith(ENTRY, <<LF>>),
      JoinWith(ENTRY, <<CR, LF>>), FENCE, <<LF>> \o FENCE \o <<LF>>,
      FENCE \o <<LF>> \o TEXT \o <<LF>> \o FENCE,
      <<"**CORRECTED TRANSCRIPT:**">>, <<"{", "corrected_transcript", "}">>,
      <<BOM>> \o NUM, <<LF, LF>> }

InitPrompt ==
    /\ original_srt \in PromptTexts
    /\ corrected_transcript \in PromptTexts
    /\ prompts = <<>>
    /\ AlignIdle /\ ClientIdle /\ ReadIdle /\ GuiIdle

BuildPrompt ==
    /\ Len(prompts) < 2
    /\ prompts' = Append(prompts, GetAlignmentPrompt(original_srt, corrected_transcript))
    /\ UNCHANGED <<original_srt, corrected_transcript>>
    /\ UNCHANGED <<alignVars, clientVars, readVars, guiVars>>

NextPrompt == BuildPrompt

SpecPrompt == InitPrompt /\ [][NextPrompt]_vars

----------------------------------------------------------------------------
(* Constructions of GeminiClient in one process, and the requests their    *)
(* clients make.                                                           *)

MaxConstructions == 3

Key1 == <<"k", "1">>

Key2 == <<"k", "2">>

\* GEMINI_API_KEY when the process starts: unset, empty, or a key.
Environments == { <<>>, << <<>> >>, <<Key1>> }

\* The api_key argument: None, empty, or a key.
ApiKeys == { <<>>, << <<>> >>, <<Key1>>, <<Key2>> }

InitClient ==
    /\ environ \in Environments
    /\ configured = environ
    /\ constructions = <<>>
    /\ requested = {}
    /\ AlignIdle /\ PromptIdle /\ ReadIdle /\ GuiIdle

\* GeminiClient(api_key)
ConstructClient ==
    /\ Len(constructions) < MaxConstructions
    /\ \E api_key \in ApiKeys, sdk_ok \in BOOLEAN :
         LET c == GeminiClientInit(environ, api_key, sdk_ok)
         IN  /\ environ' = c.environ
             /\ constructions' =
                  Append(constructions, [api_key |-> api_key, outcome |-> c.outcome])
    /\ UNCHANGED <<configured, requested>>
    /\ UNCHANGED <<alignVars, promptVars, readVars, guiVars>>

\* A constructed client's generate_content call.
ClientRequest ==
    /\ \E i \in 1..Len(constructions) :
         /\ constructions[i].outcome = "ok"
         /\ i \notin requested
         /\ requested' = requested \cup {i}
    /\ UNCHANGED <<environ, configured, constructions>>
    /\ UNCHANGED <<alignVars, promptVars, readVars, guiVars>>

NextClient == ConstructClient \/ ClientRequest

SpecClient == InitClient /\ [][NextClient]_vars

----------------------------------------------------------------------------
(* One call of read_srt_file.                                              *)

MaxBytes == 3

\* The bytes the files read are made of.
ReadBytes == {"41", "0D", "0A", "C3", "A9", "FF"}

IoOutcomes == {"ok", "OSError"}

Files ==
    { File(FALSE, <<>>, <<"ok", "ok">>) }
    \cup { File(TRUE, b, <<o1, o2>>) :
             b \in UNION { [1..n -> ReadBytes] : n \in 0..MaxBytes },
             o1 \in IoOutcomes, o2 \in IoOutcomes }

InitRead ==
    /\ file \in Files
    /\ read_result = <<>>
    /\ AlignIdle /\ PromptIdle /\ ClientIdle /\ GuiIdle

ReadFile ==
    /\ read_result = <<>>
    /\ read_result' = <<ReadSrtFile(file)>>
    /\ UNCHANGED file
    /\ UNCHANGED <<alignVars, promptVars, clientVars, guiVars>>

NextRead == ReadFile

SpecRead == InitRead /\ [][NextRead]_vars

----------------------------------------------------------------------------
(* The GUI: the control thread (run requests and scheduled callbacks) and  *)
(* the worker threads.  What the user has typed and what the disk holds    *)
(* are read when the code reads them; they may be anything then.           *)

MaxClicks == 2

\* The API key field: empty, or a key with a space typed before it.
ApiKeyFields == {<<>>, <<SP>> \o Key1}

\* The transcript widget's text always ends with a line end.
TranscriptFields == {<<LF>>, TEXT \o <<LF>>}

InputPaths == {"", "in.srt"}

\* The file the input path names when the worker reads it.
GuiFiles ==
    { File(FALSE, <<>>, <<"ok", "ok">>),
      File(TRUE, <<"31", "0D", "0A", "2D", "2D", "3E", "0A", "41", "20", "20", "20">>,
           <<"ok", "ok">>),
      File(TRUE, <<"41", "FF">>, <<"ok", "ok">>),
      File(TRUE, <<"41">>, <<"OSError", "ok">>),
      File(TRUE, <<"FF">>, <<"ok", "OSError">>) }

\* A three-line text of seven characters, padded to the length floor.
SHORT_ENTRY == <<"1", LF>> \o ARROW \o <<LF, "x", SP, SP, SP>>

\* The texts the transport answers with.
GuiResponseTexts ==
    { JoinWith(ENTRY, <<LF>>),
      JoinWith(<<<<"+">> \o NUM, TIME, TEXT>>, <<LF>>),
      JoinWith(<<NUM, TIME>>, <<LF>>),
      JoinWith(<<TEXT, TIME, TEXT>>, <<LF>>),
      JoinWith(<<NUM, TEXT \o TEXT \o TEXT, TIME>>, <<LF>>),
      SHORT_ENTRY,
      TEXT }

GuiResponses ==
    { Response(Str(t), Absent, Absent, Str(TEXT)) : t \in GuiResponseTexts }
    \cup { NoResponse }

NewWorker(run) ==
    [pc |-> "read", out |-> ReadingBlock(run),
     original_srt_content |-> <<>>, corrected_transcript |-> <<>>,
     matched_srt |-> <<>>, stages |-> <<>>, failed |-> "", write_calls |-> 0]

\* The worker as it leaves the try block on an exception raised by stage.
Failed(run, w, stage, logged, cause) ==
    [w EXCEPT !.pc = AfterStage(stage, TRUE),
              !.failed = stage,
              !.original_srt_content = <<>>,
              !.corrected_transcript = <<>>,
              !.out = Logs(run, logged) \o ExceptBlock(run, cause) \o FinallyBlock(run)]

SetWriter(attrs, thread) ==
    writer' = [a \in GuiAttrs |-> IF a \in attrs THEN thread ELSE writer[a]]

InitGui ==
    /\ AlignIdle /\ PromptIdle /\ ReadIdle
    /\ environ = <<>>
    /\ configured = environ
    /\ constructions = <<>>
    /\ requested = {}
    /\ GuiIdle

\* A click on the run button whose inputs _validate_inputs rejects.  A
\* disabled button takes no click.
RunMatchingRejected ==
    /\ run_button = "normal"
    /\ clicks < MaxClicks
    /\ \E k \in ApiKeyFields, path \in InputPaths, exists \in BOOLEAN,
          t \in TranscriptFields :
          /\ ValidateInputs(k, path, exists, t) # ""
          /\ input_error' = ValidateInputs(k, path, exists, t)
    /\ clicks' = clicks + 1
    /\ UNCHANGED <<run_button, progress_bar, status_text, log_text, after_queue,
                   workers, gemini_client, output_file, shown, emitted, writer>>
    /\ UNCHANGED <<alignVars, promptVars, clientVars, readVars>>

\* _run_matching with valid inputs.
RunMatching ==
    /\ run_button = "normal"
    /\ clicks < MaxClicks
    /\ \E k \in ApiKeyFields, path \in InputPaths, exists \in BOOLEAN,
          t \in TranscriptFields :
          /\ ValidateInputs(k, path, exists, t) = ""
          /\ input_error' = ValidateInputs(k, path, exists, t)
    /\ clicks' = clicks + 1
    /\ LET run == Len(workers) + 1
           block == StartingBlock(run)
       IN  /\ log_text' = <<>>
           /\ after_queue' = After(After(After(after_queue, block[1]), block[2]), block[3])
           /\ emitted' = [k \in 1..Len(block) |-> [run |-> run, text |-> block[k].arg]]
           /\ run_button' = ProcessingState
           /\ progress_bar' = "running"
           /\ status_text' = "Processing..."
           /\ workers' = Append(workers, NewWorker(run))
    /\ SetWriter({"log_text", "run_button", "progress_bar", "status_text"}, "control")
    /\ UNCHANGED <<gemini_client, output_file, shown>>
    /\ UNCHANGED <<alignVars, promptVars, clientVars, readVars>>

\* The main loop runs the oldest scheduled callback.
RunCallback ==
    /\ after_queue # <<>>
    /\ LET cb == Head(after_queue)
       IN  /\ after_queue' = Tail(after_queue)
           /\ log_text' = IF cb.kind = "append_log"
                          THEN Append(log_text, [run |-> cb.run, text |-> cb.arg])
                          ELSE log_text
           /\ status_text' = IF cb.kind = "set_status" THEN cb.arg ELSE status_text
           /\ shown' = CASE cb.kind = "showinfo" -> Append(shown, [kind |-> "success", run |-> cb.run])
                         [] cb.kind = "showerror" -> Append(shown, [kind |-> "error", run |-> cb.run])
                         [] cb.kind = "reset_ui" -> Append(shown, [kind |-> "reset", run |-> cb.run])
                         [] OTHER -> shown
           /\ run_button' = IF cb.kind = "reset_ui" THEN "normal" ELSE run_button
           /\ progress_bar' = IF cb.kind = "reset_ui" THEN "stopped" ELSE progress_bar
           /\ SetWriter(CASE cb.kind = "append_log" -> {"log_text"}
                          [] cb.kind = "set_status" -> {"status_text"}
                          [] cb.kind = "reset_ui" -> {"run_button", "progress_bar"}
                          [] OTHER -> {},
                        "control")
    /\ UNCHANGED <<workers, gemini_client, output_file, emitted, clicks, input_error>>
    /\ UNCHANGED <<alignVars, promptVars, clientVars, readVars>>

\* The worker makes its next root.after call.
WorkerSchedule(i) ==
    /\ workers[i].out # <<>>
    /\ LET cb == Head(workers[i].out)
       IN  /\ after_queue' = After(after_queue, cb)
           /\ emitted' = IF cb.kind = "append_log"
                         THEN Append(emitted, [run |-> cb.run, text |-> cb.arg])
                         ELSE emitted
    /\ workers' = [workers EXCEPT ![i].out = Tail(@)]
    /\ UNCHANGED <<run_button, progress_bar, status_text, log_text, gemini_client,
                   output_file, shown, writer, clicks, input_error>>
    /\ UNCHANGED <<alignVars, promptVars, clientVars, readVars>>

\* What a step of the worker's own code leaves alone.
WorkerFrame ==
    /\ UNCHANGED <<run_button, progress_bar, status_text, log_text, after_queue,
                   shown, emitted, clicks, input_error>>
    /\ UNCHANGED <<alignVars, promptVars, readVars, configured, constructions, requested>>

\* read_srt_file(input_path)
WorkerRead(i) ==
    /\ workers[i].pc = "read" /\ workers[i].out = <<>>
    /\ \E f \in GuiFiles :
         LET w == workers[i]
             r == ReadSrtFile(f)
         IN  workers' = [workers EXCEPT ![i] =
               IF r.outcome = "returned"
               THEN [w EXCEPT !.pc = AfterStage("read", FALSE),
                              !.original_srt_content = <<r.text>>,
                              !.stages = Append(@, "read"),
                              !.out = LoadedBlock(i)]
               ELSE Failed(i, w, "read", <<>>, <<r.error>>)]
    /\ UNCHANGED <<environ, gemini_client, output_file, writer>>
    /\ WorkerFrame

\* self.transcript_text.get("1.0", tk.END).strip()
WorkerGetTranscript(i) ==
    /\ workers[i].pc = "transcript" /\ workers[i].out = <<>>
    /\ \E t \in TranscriptFields :
         workers' = [workers EXCEPT ![i] =
               [@ EXCEPT !.pc = AfterStage("transcript", FALSE),
                         !.corrected_transcript = <<Strip(t)>>,
                         !.out = ConnectingBlock(i)]]
    /\ UNCHANGED <<environ, gemini_client, output_file, writer>>
    /\ WorkerFrame

\* self.gemini_client = GeminiClient(api_key, log_callback=self._log)
WorkerConstruct(i) ==
    /\ workers[i].pc = "construct" /\ workers[i].out = <<>>
    /\ \E k \in ApiKeyFields, sdk_ok \in BOOLEAN :
         LET w == workers[i]
             c == GeminiClientInit(environ, <<Strip(k)>>, sdk_ok)
         IN  /\ environ' = c.environ
             /\ IF c.outcome = "ok"
                THEN /\ gemini_client' = <<i>>
                     /\ SetWriter({"gemini_client"}, "worker")
                     /\ workers' = [workers EXCEPT ![i] =
                          [w EXCEPT !.pc = AfterStage("construct", FALSE),
                                    !.stages = Append(@, "construct"),
                                    !.out = CallingBlock(i)]]
                ELSE /\ UNCHANGED <<gemini_client, writer>>
                     /\ workers' = [workers EXCEPT ![i] =
                          Failed(i, w, "construct", <<>>, <<c.outcome>>)]
    /\ UNCHANGED output_file
    /\ WorkerFrame

\* self.gemini_client.align_subtitles(original_srt_content, corrected_transcript)
WorkerAlign(i) ==
    /\ workers[i].pc = "align" /\ workers[i].out = <<>>
    /\ \E outcome \in {"ok", "fails"}, resp \in GuiResponses :
         /\ outcome = "fails" => resp = NoResponse
         /\ LET w == workers[i]
                x == ExtractText(resp)
                e == IF outcome = "fails" THEN "transport" ELSE Validate(x.result_text)
            IN  workers' = [workers EXCEPT ![i] =
                  IF e = ""
                  THEN [w EXCEPT !.pc = AfterStage("align", FALSE),
                                 !.original_srt_content = <<>>,
                                 !.corrected_transcript = <<>>,
                                 !.matched_srt = <<CleanSrtResponse(x.result_text[1]).text>>,
                                 !.stages = Append(@, "align"),
                                 !.out = Logs(i, AlignLog(outcome, resp)) \o WritingBlock(i)]
                  ELSE Failed(i, w, "align", AlignLog(outcome, resp), WrapError(e))]
    /\ UNCHANGED <<environ, gemini_client, output_file, writer>>
    /\ WorkerFrame

\* write_srt_file(output_path, matched_srt): it succeeds, or it fails
\* before the file is opened, or after the file was opened for writing.
WorkerWrite(i) ==
    /\ workers[i].pc = "write" /\ workers[i].out = <<>>
    /\ \E wr \in {"ok", "open fails", "write fails"} :
         LET w == [workers[i] EXCEPT !.write_calls = @ + 1,
                                     !.matched_srt = <<>>]
         IN  /\ output_file' = CASE wr = "ok" -> workers[i].matched_srt
                                 [] wr = "open fails" -> output_file
                                 [] OTHER -> << <<>> >>
             /\ workers' = [workers EXCEPT ![i] =
                   IF wr = "ok"
                   THEN [w EXCEPT !.pc = AfterStage("write", FALSE),
                                  !.stages = Append(@, "write"),
                                  !.out = SuccessBlock(i) \o FinallyBlock(i)]
                   ELSE Failed(i, w, "write", <<>>, <<"Failed to write SRT file: <cause>">>)]
    /\ UNCHANGED <<environ, gemini_client, writer>>
    /\ WorkerFrame

Worker(i) ==
    \/ WorkerSchedule(i)
    \/ WorkerRead(i)
    \/ WorkerGetTranscript(i)
    \/ WorkerConstruct(i)
    \/ WorkerAlign(i)
    \/ WorkerWrite(i)

WorkerStep == \E i \in 1..Len(workers) : Worker(i)

NextGui == RunMatchingRejected \/ RunMatching \/ RunCallback \/ WorkerStep

SpecGui == InitGui /\ [][NextGui]_vars

\* The main loop keeps running callbacks and a started thread keeps running.
SpecGuiLive == SpecGui /\ WF_vars(RunCallback) /\ WF_vars(WorkerStep)

----------------------------------------------------------------------------
(* Properties.  The lines a property speaks of are the lines the scan of   *)
(* step 5 reads: those of the text after steps 1 to 4.  Indices count      *)
(* from 1.                                                                 *)

Input == result_text[1]
Output == cleaned_result[1]
ScannedLines == Split(Precleaned(Input))

\* A purely-digit line whose next line is a strict timecode range.
PairAt(lines, d) ==
    /\ d < Len(lines)
    /\ IsNumeric(Strip(lines[d]))
    /\ IsTimestamp(Strip(lines[d + 1]))

HeaderAt(lines, h) == IsMappingHeader(Strip(lines[h]))

HasHeader(lines) == \E h \in 1..Len(lines) : HeaderAt(lines, h)

HasPair(lines) == \E d \in 1..Len(lines) : PairAt(lines, d)

\* The smallest element of S, 0 when S is empty.
FirstOf(S) == IF S = {} THEN 0 ELSE Least(S)

\* The first mapping header line, 0 when there is none.
FirstHeader(lines) == FirstOf({h \in 1..Len(lines) : HeaderAt(lines, h)})

\* The first pair after line h, 0 when there is none.
FirstPairAfter(lines, h) == FirstOf({d \in (h + 1)..Len(lines) : PairAt(lines, d)})

\* The line of the subtitle start: the first pair after the first mapping
\* header, 0 when there is no header or no pair after it.
SplitLine(lines) ==
    LET h == FirstHeader(lines)
    IN  IF h = 0 THEN 0 ELSE FirstPairAfter(lines, h)

\* The text from line d to the end, trimmed.
TextFrom(lines, d) == Strip(Join(SubSeq(lines, d, Len(lines))))

\* C1: when a mapping header line is followed later by a purely-digit line
\* whose next line is a strict timecode range, the normalizer returns
\* exactly the text from that digit line to the end, trimmed: the d - 1
\* lines before it (what precedes the header, the header, the mapping
\* lines) are not in the returned text.
C1_MappingSplit ==
    pc = "cleaned" =>
        LET lines == ScannedLines
            d == SplitLine(lines)
        IN  d > 0 =>
                /\ Output = TextFrom(lines, d)
                /\ Len(Split(Output)) <= Len(lines) - (d - 1)

\* A split with text before the header and a mapping line after it.
C1_Witness ==
    /\ pc = "cleaned"
    /\ LET lines == ScannedLines
           h == FirstHeader(lines)
           d == SplitLine(lines)
       IN  /\ h > 1
           /\ d > h + 1
           /\ Output = TextFrom(lines, d)
           /\ Output # Strip(Precleaned(Input))

\* C2 (as claimed): with no mapping header but a digit line followed by a
\* strict timecode range, everything before the first such digit line is
\* discarded and the text from that line on is returned.
C2_SrtWithoutMapping ==
    pc = "cleaned" =>
        LET lines == ScannedLines
            d == FirstPairAfter(lines, 0)
        IN  (~HasHeader(lines) /\ d > 0) => Output = TextFrom(lines, d)

\* C3 (as claimed): normalizing the normalizer's result changes nothing, for
\* every response text that passes the length guard.
C3_Idempotent ==
    (pc = "recleaned" /\ Len(Input) >= MinLength) => second_pass = cleaned_result

\* C4 (as claimed): a response text under 10 characters after stripping makes
\* the alignment fail with the invalid-response error, a text of 10 or more
\* passes, and no text under the threshold after stripping is ever returned.
C4_LengthGuardAfterStrip ==
    (pc \in {"returned", "raised"} /\ transport = "ok" /\ ~Falsy(result_text)) =>
        /\ Len(Strip(Input)) < MinLength =>
               pc = "raised" /\ error = "suspiciously short response"
        /\ Len(Strip(Input)) >= MinLength => pc = "returned"

\* The number of mapping header lines.
HeaderCount(lines) == Cardinality({h \in 1..Len(lines) : HeaderAt(lines, h)})

\* C5 (as claimed): a returned text holds no triple-backtick marker and no
\* mapping header line.
C5_NoFenceNoMapping ==
    pc = "returned" => ~Contains(Output, FENCE) /\ ~HasHeader(Split(Output))

\* C5 (amended): a returned text holds no triple-backtick marker; the first
\* mapping header is gone from it when a digit+timecode pair follows that
\* header, and when none follows every mapping header line is still in it.
C5_NoFenceMappingCutOnSplit ==
    pc = "returned" =>
        LET lines == ScannedLines
            d == SplitLine(lines)
            out == Split(Output)
        IN  /\ ~Contains(Output, FENCE)
            /\ d > 0 => HeaderCount(out) < HeaderCount(lines)
            /\ d = 0 => HeaderCount(out) = HeaderCount(lines)

\* A fenced, mapping-prefixed response returned as the bare entry.
C5_Witness ==
    /\ pc = "returned"
    /\ Contains(Input, FENCE)
    /\ HasHeader(ScannedLines)
    /\ Output = Join(ENTRY)

\* A subtitle text inside an opening fence line with a language tag and a
\* closing fence line.
Wrapped(tag, body) == FENCE \o tag \o <<LF>> \o body \o <<LF>> \o FENCE

SubtitleTexts == { Join(ENTRY), Join(TWO_ENTRIES) }

Unwraps(tags) ==
    \A tag \in tags, body \in SubtitleTexts :
        Input = Wrapped(tag, body) =>
            /\ Output = body
            /\ \A k \in 1..Len(Output) : Output[k] # BT

\* C6 (as claimed): a fenced subtitle text is returned unwrapped, whatever
\* the spelling of the language tag, with no backtick left.
C6_AnyTagUnwrapped == pc = "cleaned" => Unwraps({<<>>, TAG, TAG_UPPER})

\* C6 (amended): a fenced subtitle text is returned unwrapped, with no
\* backtick left, when the opening fence has no tag or a tag of lower-case
\* letters a to z.
C6_LowerTagUnwrapped == pc = "cleaned" => Unwraps({<<>>, TAG})

C6_Witness ==
    /\ pc = "cleaned"
    /\ Input = Wrapped(TAG, Join(TWO_ENTRIES))
    /\ Output = Join(TWO_ENTRIES)

\* C7 (as claimed): with neither a mapping header nor a digit+timecode pair,
\* the text of steps 1 to 4 is returned as it is.
C7_FallbackUnchanged ==
    pc = "cleaned" =>
        LET lines == ScannedLines
        IN  (~HasHeader(lines) /\ ~HasPair(lines)) => Output = Precleaned(Input)

\* C7 (amended): with neither a mapping header nor a digit+timecode pair,
\* the text of steps 1 to 4 is returned trimmed of leading and trailing
\* whitespace, and the fallback is what the normalizer logs.
C7_FallbackTrimmed ==
    pc = "cleaned" =>
        LET lines == ScannedLines
        IN  (~HasHeader(lines) /\ ~HasPair(lines)) =>
                /\ Output = Strip(Precleaned(Input))
                /\ clean_log = <<"no srt start, full response used">>

\* A fallback of several lines.
C7_Witness ==
    /\ pc = "cleaned"
    /\ LET lines == ScannedLines
       IN  /\ ~HasHeader(lines) /\ ~HasPair(lines)
           /\ Len(lines) >= 2
           /\ Output = Join(lines)

\* The word "mapping", in any case, ending the line.
WordAtEnd(t) ==
    /\ Len(t) >= 7
    /\ \A k \in 1..7 :
           Lower(t[Len(t) - 7 + k]) = <<"m", "a", "p", "p", "i", "n", "g">>[k]

\* A "#", whitespace or none, and the word.
HashThenWord(t) ==
    /\ Len(t) >= 8
    /\ t[1] = "#"
    /\ WordAtEnd(t)
    /\ \A k \in 2..(Len(t) - 7) : t[k] \in Whitespace

\* The word alone.
BareWord(t) == Len(t) = 7 /\ WordAtEnd(t)

MappingDetected == \E k \in 1..Len(clean_log) : clean_log[k] = "mapping detected"

\* C8 (as claimed): a line is taken for the mapping header whenever, case
\* and surrounding whitespace aside, it is an optional "#" and the word
\* "mapping".
C8_HashOptional ==
    pc = "cleaned" =>
        LET lines == ScannedLines
        IN  (\E k \in 1..Len(lines) :
                 HashThenWord(Strip(lines[k])) \/ BareWord(Strip(lines[k])))
            => MappingDetected

\* C8 (amended): a line is taken for the mapping header exactly when, case
\* and surrounding whitespace aside, it is a "#", optional whitespace and
\* the word "mapping"; the word without the "#" is not a header.
C8_HashRequired ==
    pc = "cleaned" =>
        LET lines == ScannedLines
        IN  MappingDetected <=> \E k \in 1..Len(lines) : HashThenWord(Strip(lines[k]))

\* A bare word line ignored and a lower-case header after it detected.
C8_Witness ==
    /\ pc = "cleaned"
    /\ MappingDetected
    /\ LET lines == ScannedLines
       IN  /\ Len(lines) >= 2
           /\ BareWord(Strip(lines[1]))
           /\ lines[2] = HEADER_LOOSE

\* C9 (as claimed): the normalizer's result does not begin with a byte-order
\* mark and holds no CR LF sequence.
C9_NoBomNoCrlf ==
    pc = "cleaned" =>
        /\ Output = <<>> \/ Output[1] # BOM
        /\ ~Contains(Output, <<CR, LF>>)

\* What an accessor path yields: its non-empty text, <<>> when it holds
\* None, the empty text or nothing, or raises.
NonEmpty(attr) == IF attr.kind = "str" /\ attr.val # <<>> THEN <<attr.val>> ELSE <<>>

Yield1 == NonEmpty(response.text)
Yield2 == NonEmpty(response.candidates)
Yield3 ==
    IF response.result.kind = "absent" THEN NonEmpty(response.repr)
    ELSE NonEmpty(response.result)

C11_SingleRequestWrappedError ==
    /\ requests <= 1
    /\ pc \in {"returned", "raised"} => requests = 1
    /\ pc = "raised" =>
          /\ error \in {"transport", "empty response", "suspiciously short response"}
          /\ raised = <<"Gemini API error: ", error>>
          /\ cleaned_result = <<>>
    /\ pc = "returned" => raised = <<>> /\ error = "" /\ cleaned_result # <<>>

\* The validation failed after the one request was answered.
C11_Witness ==
    /\ pc = "raised"
    /\ transport = "ok"
    /\ error = "suspiciously short response"
    /\ requests = 1

----------------------------------------------------------------------------
(* Properties of the prompt, the client construction and the file read.    *)

\* pat lies in s at index i, whole and contiguous.
OccursAt(s, i, pat) ==
    /\ i + Len(pat) - 1 <= Len(s)
    /\ \A k \in 1..Len(pat) : s[i + k - 1] = pat[k]

C17_NoCredentialAlwaysFails ==
    \A i \in 1..Len(constructions) :
        (Falsy(constructions[i].api_key) /\ Falsy(configured)) =>
            /\ constructions[i].outcome = "ValueError"
            /\ i \notin requested

\* C18: read_srt_file raises the not-found error for an absent path;
\* otherwise it tries UTF-8 first, tries latin-1 only when the UTF-8 decoding
\* failed, returns the text of the first attempt that succeeds, and raises
\* every other failure as the wrapped error 'Failed to read SRT file'.
C18_ReadContract ==
    read_result # <<>> =>
        LET r == read_result[1]
        IN  IF ~file.exists
            THEN r.outcome = "raised" /\ r.error = "FileNotFoundError"
            ELSE /\ r.tried # <<>> /\ r.tried[1] = "utf-8"
                 /\ Len(r.tried) = 2 => r.tried[2] = "latin-1" /\ ~Utf8Valid(file.bytes, 1)
                 /\ r.outcome = "returned" =>
                      r.text = IF Len(r.tried) = 1
                               THEN TranslateNewlines(Utf8Chars(file.bytes, 1))
                               ELSE TranslateNewlines(Latin1Chars(file.bytes))
                 /\ r.outcome = "raised" => r.error = "Failed to read SRT file"

----------------------------------------------------------------------------
(* Properties of the GUI.                                                  *)

Runs == 1..Len(workers)

\* How many times the control thread did kind for run r.
Count(kind, r) ==
    Cardinality({k \in 1..Len(shown) : shown[k].kind = kind /\ shown[k].run = r})

\* Run r has a worker whose _reset_ui has not run yet.
InFlight(r) == r \in Runs /\ Count("reset", r) = 0

\* The thread of run r has not ended.
Alive(r) == r \in Runs /\ (workers[r].pc # "done" \/ workers[r].out # <<>>)

\* C12: between the dispatch of a worker and the execution of its
\* _reset_ui, the run button is disabled and no second worker is in flight
\* or alive, in every interleaving; a run request is made only on an
\* enabled button, and one whose validation fails starts no worker and
\* leaves the button enabled, while a valid one starts exactly one.
C12_OneWorkerInFlight ==
    /\ [](/\ Cardinality({r \in Runs : InFlight(r)}) <= 1
          /\ Cardinality({r \in Runs : Alive(r)}) <= 1
          /\ \A r \in Runs : Alive(r) => InFlight(r)
          /\ \A r \in Runs : InFlight(r) => run_button = "disabled")
    /\ [][clicks' # clicks =>
            /\ run_button = "normal"
            /\ input_error' # "" => workers' = workers /\ run_button' = "normal"
            /\ input_error' = "" => Len(workers') = Len(workers) + 1]_vars

\* A second request was rejected while no worker was in flight, after the
\* first run's worker had been reset.
C12_Witness ==
    /\ Len(workers) = 1
    /\ Count("reset", 1) = 1
    /\ clicks = 2
    /\ input_error # ""
    /\ run_button = "normal"

\* What holds of the dialogs and the reset of every run in every state.
C13_AtMostOnce ==
    \A r \in Runs :
        /\ Count("reset", r) <= 1
        /\ Count("error", r) + Count("success", r) <= 1
        /\ Count("error", r) = 1 => workers[r].failed # ""
        /\ Count("success", r) = 1 => workers[r].failed = "" /\ workers[r].pc = "done"
        /\ Count("reset", r) = 1 =>
              /\ ~Alive(r)
              /\ Count("error", r) = (IF workers[r].failed # "" THEN 1 ELSE 0)
              /\ Count("success", r) = (IF workers[r].failed # "" THEN 0 ELSE 1)

\* C13: every dispatched worker, whichever stage fails or none, leads to
\* its reset being executed, once; the reset enables the run button and
\* stops the progress bar; by then a failed run has shown one error dialog
\* and no success dialog, a successful run one success dialog and no error
\* dialog.
C13_ResetExactlyOnce ==
    /\ []C13_AtMostOnce
    /\ [][\A r \in Runs : Count("reset", r)' > Count("reset", r) =>
              run_button' = "normal" /\ progress_bar' = "stopped"]_vars
    /\ \A r \in 1..MaxClicks : (r \in Runs) ~> (Count("reset", r) = 1)

\* A run that failed in the transport call has been reset.
C13_Witness ==
    /\ Len(workers) = 1
    /\ workers[1].failed = "align"
    /\ Count("reset", 1) = 1
    /\ Count("error", 1) = 1
    /\ run_button = "normal"
    /\ progress_bar = "stopped"

\* C14: write_srt_file is called at most once in a run, and only by a
\* worker whose file read, client construction and align_subtitles call
\* (transport and normalization) have succeeded, in that order; a run in
\* which one of these fails never calls it, and the output file changes
\* only in a step that is such a call.
C14_WriteAfterAllStages ==
    /\ [](\A r \in Runs :
            /\ workers[r].write_calls <= 1
            /\ workers[r].write_calls = 1 =>
                  /\ Len(workers[r].stages) >= 3
                  /\ SubSeq(workers[r].stages, 1, 3) = <<"read", "construct", "align">>
                  /\ workers[r].failed \in {"", "write"}
            /\ workers[r].failed \in {"read", "construct", "align"} =>
                  workers[r].write_calls = 0 /\ workers[r].pc = "done")
    /\ [][output_file' # output_file =>
            \E r \in Runs :
                /\ workers[r].stages = <<"read", "construct", "align">>
                /\ workers[r].failed = ""
                /\ workers'[r].write_calls = workers[r].write_calls + 1]_vars

\* The second run failed in the client construction and was reset; the
\* output file still holds what the first run wrote.
C14_Witness ==
    /\ Len(workers) = 2
    /\ workers[1].stages = <<"read", "construct", "align", "write">>
    /\ workers[2].failed = "construct"
    /\ workers[2].write_calls = 0
    /\ Count("reset", 2) = 1
    /\ output_file = <<JoinWith(ENTRY, <<LF>>)>>

\* C15: no attribute of the GUI object is ever set by the worker thread:
\* each is last set by the control thread, in every state.
C15_WorkerSetsNothing == \A a \in GuiAttrs : writer[a] = "control"

\* The lines of text t as validate_srt_format reads them.
SrtLines(t) == Split(Strip(t))

\* At least three lines, the first (non-empty) one an integer, the second
\* one holding the arrow.
Structured(t) ==
    /\ Len(SrtLines(t)) >= 3
    /\ ParsesAsInt(SrtLines(t)[1])
    /\ Contains(SrtLines(t)[2], ARROW)

\* The texts a run holds: the file content read and the text returned.
PipelineTexts ==
    UNION { {t \in {workers[r].original_srt_content, workers[r].matched_srt, output_file}
                : t # <<>>} : r \in Runs }

\* A worker that got a text from align_subtitles is about to call
\* write_srt_file or has called it: nothing stands between the two.
WritesWhateverReturned ==
    \A r \in Runs :
        workers[r].matched_srt # <<>> =>
            /\ workers[r].pc = "write"
            /\ workers[r].write_calls = 0

\* C19 as stated: validate_srt_format is true of a text exactly when the
\* text has at least 3 lines, its first non-empty line parses as an integer
\* and its second line holds the arrow; and the pipeline writes the text
\* it got whatever validate_srt_format says of it.
C19_ValidIffStructured ==
    /\ \A t \in PipelineTexts : ValidateSrtFormat(t[1]) <=> Structured(t[1])
    /\ WritesWhateverReturned

\* C19 amended: ... exactly when the text, as given, has at least 10
\* characters and, stripped of surrounding whitespace, has at least 3
\* lines, its first line parses as an integer and its second line holds
\* the arrow; the pipeline writes the text it got whatever
\* validate_srt_format says of it.
C19_ValidIffLongAndStructured ==
    /\ \A t \in PipelineTexts :
          ValidateSrtFormat(t[1]) <=> (Len(t[1]) >= 10 /\ Structured(t[1]))
    /\ WritesWhateverReturned

\* The output file holds a text of three lines, with an integer first line
\* and the arrow in the second, that validate_srt_format rejects for its
\* length, written by a run that ended in success.
C19_Witness ==
    /\ output_file # <<>>
    /\ output_file[1] # <<>>
    /\ ~ValidateSrtFormat(output_file[1])
    /\ Structured(output_file[1])
    /\ Count("success", 1) = 1

\* s is a prefix of t.
IsPrefix(s, t) == Len(s) <= Len(t) /\ SubSeq(t, 1, Len(s)) = s

\* C20: the log display holds, in the order they were emitted, a prefix of
\* the messages the current run emitted, and no line of an earlier run;
\* no callback of an earlier run is pending; and once the run's reset has
\* enabled the run button the display holds every message the run emitted.
C20_LogOrderedAndComplete ==
    /\ IsPrefix(log_text, emitted)
    /\ \A k \in 1..Len(log_text) : log_text[k].run = Len(workers)
    /\ \A k \in 1..Len(after_queue) : after_queue[k].run = Len(workers)
    /\ (Len(workers) >= 1 /\ run_button = "normal") =>
          /\ log_text = emitted
          /\ after_queue = <<>>
          /\ ~Alive(Len(workers))

\* The second run has been reset and the display holds its messages only,
\* the last of them the last line the worker logged.
C20_Witness ==
    /\ Len(workers) = 2
    /\ Count("reset", 2) = 1
    /\ Len(log_text) > 3
    /\ log_text = emitted
    /\ log_text[Len(log_text)] = [run |-> 2, text |-> <<"====">>]

----------------------------------------------------------------------------
(* The subtitle start the scan loop chooses                                *)

\* The line (counted from 1) the scan loop leaves in srt_start, 0 when it
\* leaves -1.
ChosenStart(lines) == DetectSections(lines).srt_start + 1

\* The line (counted from 1) the scan loop leaves in mapping_start, 0 when
\* it leaves -1.
ChosenHeader(lines) == DetectSections(lines).mapping_start + 1

\* A purely-digit line that is the last line or whose next line is not a
\* strict timecode range.
LoneDigitAt(lines, d) == IsNumeric(Strip(lines[d])) /\ ~PairAt(lines, d)

\* C21: when the scanned text has a mapping header line, the header is the
\* first such line, and the subtitle start chosen is the first purely-digit
\* line after it whose next line is a strict timecode range: no line before
\* or at the header is chosen, no digit line that is last or not followed
\* by a strict timecode range is chosen, a later header line does not move
\* the search, and the text from the chosen line on is what is returned.
\* When no such pair follows the header, no start is chosen and the whole
\* cleaned text, trimmed as every returned text is, is returned with its
\* header lines.
C21_StartIsFirstPairAfterFirstHeader ==
    pc = "cleaned" =>
        LET lines == ScannedLines
            h == FirstHeader(lines)
            s == ChosenStart(lines)
        IN  h > 0 =>
                /\ ChosenHeader(lines) = h
                /\ s > 0 =>
                       /\ s > h
                       /\ PairAt(lines, s)
                       /\ ~LoneDigitAt(lines, s)
                       /\ \A d \in (h + 1)..(s - 1) : ~PairAt(lines, d)
                       /\ Output = TextFrom(lines, s)
                       /\ clean_log = <<"mapping detected", "srt start detected",
                                        "mapping table">>
                /\ s = 0 =>
                       /\ \A d \in (h + 1)..Len(lines) : ~PairAt(lines, d)
                       /\ Output = Strip(Precleaned(Input))
                       /\ HeaderCount(Split(Output)) = HeaderCount(lines)
                       /\ clean_log = <<"mapping detected",
                                        "no srt start, full response used">>

\* A text with a digit+timecode pair before the header and, after the
\* header, a lone digit line ahead of the pair that is chosen.
C21_Witness ==
    /\ pc = "cleaned"
    /\ LET lines == ScannedLines
           h == FirstHeader(lines)
           s == ChosenStart(lines)
       IN  /\ h > 0
           /\ \E d \in 1..(h - 1) : PairAt(lines, d)
           /\ s > h
           /\ \E d \in (h + 1)..(s - 1) : LoneDigitAt(lines, d)
           /\ Output = TextFrom(lines, s)
           /\ Output # Strip(Precleaned(Input))

====
